---- MODULE Spec2Model ----
(***************************************************************************)
(* Model of detection/efficientvit_fpn.py: the EfficientViTFPN neck.       *)
(* A feature map is abstracted to its channel count, its spatial size (one *)
(* side of a square map) and the provenance of its value: which module     *)
(* produced it, from which feature map, and which backbone levels          *)
(* contribute to it.  Python indices are 0-based; At(s, i) reads s[i].     *)
(***************************************************************************)
EXTENDS Integers, Sequences, FiniteSets, TLC

VARIABLES pc, cfg, self, err, inputs, laterals, i, extra_laterals, outs,
          extra_outs, extra_outs_bound, result

vars == <<pc, cfg, self, err, inputs, laterals, i, extra_laterals, outs,
          extra_outs, extra_outs_bound, result>>

(* ---------------------------- bounds ----------------------------------- *)
MaxIns == 3
MaxOuts == 4
MaxCh == 2
MaxSize == 2
MaxTrans == 2
MaxStart == 1

Channels == 1..MaxCh
OutChannelSet == {MaxCh + 1}
Sizes == 1..MaxSize
AddExtraConvsArgs == {"False", "True", "on_input", "on_lateral", "on_output", "on_top"}
EndLevels == {-1} \cup (1..MaxIns)
ScaleFactors == {0, 2}

(* ---------------------------- helpers ---------------------------------- *)
At(s, k) == s[k + 1]

Last(s) == s[Len(s)]

InRange(s, k) == k >= 0 /\ k < Len(s)

\* Python truthiness of the add_extra_convs value (bool or non-empty str).
Truthy(m) == m # "False"

IsBool(m) == m \in {"False", "True"}

\* torch Conv2d output size: floor((n + 2p - k) / s) + 1
ConvOutSize(n, k, s, p) == ((n + 2 * p - k) \div s) + 1

\* torch ConvTranspose2d output size: (n - 1) * s - 2p + k
TransConvOutSize(n, k, s, p) == (n - 1) * s - 2 * p + k

\* F.max_pool2d(x, 1, stride=2): floor((n - 1) / 2) + 1
MaxPoolOutSize(n) == ((n - 1) \div 2) + 1

Conv(cin, cout, k, s, p) == [cin |-> cin, cout |-> cout, k |-> k, s |-> s, p |-> p]

FeatureMap(ch, size, kind, level, contrib, srckind, srclevel) ==
  [ch |-> ch, size |-> size, kind |-> kind, level |-> level, contrib |-> contrib,
   srckind |-> srckind, srclevel |-> srclevel, relued |-> FALSE, relu_in |-> FALSE]

\* F.relu(x): same shape, value marked as rectified.
Relu(x) == [x EXCEPT !.relued = TRUE]

\* Applying a ConvModule: channels become cout, the provenance records the
\* consumed feature map and whether it had been rectified.
ApplyConv(conv, x, kind, level) ==
  [ch |-> conv.cout, size |-> ConvOutSize(x.size, conv.k, conv.s, conv.p),
   kind |-> kind, level |-> level, contrib |-> x.contrib,
   srckind |-> x.kind, srclevel |-> x.level, relued |-> FALSE, relu_in |-> x.relued]

ApplyTransConv(conv, x, kind, level) ==
  [ch |-> conv.cout, size |-> TransConvOutSize(x.size, conv.k, conv.s, conv.p),
   kind |-> kind, level |-> level, contrib |-> x.contrib,
   srckind |-> x.kind, srclevel |-> x.level, relued |-> FALSE, relu_in |-> x.relued]

\* A convolution accepts only inputs with the channel count it was built for.
ChannelsOK(conv, x) == x.ch = conv.cin

(* ---------------------------- __init__ --------------------------------- *)
NoCfg ==
  [in_channels |-> <<>>, out_channels |-> 0, num_outs |-> 0, start_level |-> 0,
   end_level |-> -1, add_extra_convs |-> "False", extra_convs_on_inputs |-> TRUE,
   relu_before_extra_convs |-> FALSE, num_extra_trans_convs |-> 0,
   pre_norm |-> FALSE, scale_factor |-> 0]

BackboneEndLevel(c) ==
  IF c.end_level = -1 THEN Len(c.in_channels) ELSE c.end_level

\* the assertions of lines 87-94
LevelsOK(c) ==
  IF c.end_level = -1
    THEN c.num_outs >= Len(c.in_channels) - c.start_level
    ELSE /\ c.end_level <= Len(c.in_channels)
         /\ c.num_outs = c.end_level - c.start_level

\* the assertions of lines 98-101
ModeOK(m) == IsBool(m) \/ m \in {"on_input", "on_lateral", "on_output"}

\* faulty variant: the deprecated flag is read the wrong way round
NormalizeAddExtraConvs_Swapped(m, on_inputs) ==
  IF ~IsBool(m) THEN m
  ELSE IF m = "True"
    THEN (IF on_inputs THEN "on_output" ELSE "on_input")
    ELSE m

\* lines 97-111: the value stored in self.add_extra_convs
NormalizeAddExtraConvs(m, on_inputs) ==
  IF ~IsBool(m) THEN m
  ELSE IF m = "True"
    THEN (IF on_inputs THEN "on_input" ELSE "on_output")
    ELSE m

\* lines 144-148
ExtraLevels(c) == c.num_outs - BackboneEndLevel(c) + c.start_level

\* faulty variant: every extra conv is built for out_channels inputs
ExtraConvInChannels_AlwaysOut(k, mode, c) == c.out_channels

\* lines 151-154: input channels of the i-th extra strided conv
ExtraConvInChannels(k, mode, c) ==
  IF k = 0 /\ mode = "on_input"
    THEN At(c.in_channels, BackboneEndLevel(c) - 1)
    ELSE c.out_channels

UsedLevels(c) ==
  IF BackboneEndLevel(c) > c.start_level
    THEN BackboneEndLevel(c) - c.start_level ELSE 0

\* lines 113-141
LateralConvs(c) ==
  [k \in 1..UsedLevels(c) |->
     Conv(At(c.in_channels, c.start_level + k - 1), c.out_channels, 1, 1, 0)]

BatchNorms(c) ==
  IF c.pre_norm
    THEN [k \in 1..UsedLevels(c) |-> At(c.in_channels, c.start_level + k - 1)]
    ELSE <<>>

\* lines 118-165: one 3x3 conv per used level, then the extra strided convs
FpnConvs(c) ==
  LET mode == NormalizeAddExtraConvs(c.add_extra_convs, c.extra_convs_on_inputs)
      extra == ExtraLevels(c) - c.num_extra_trans_convs
      nextra == IF Truthy(mode) /\ extra >= 1 THEN extra ELSE 0
  IN  [k \in 1..UsedLevels(c) |-> Conv(c.out_channels, c.out_channels, 3, 1, 1)]
      \o [k \in 1..nextra |->
            Conv(ExtraConvInChannels(k - 1, mode, c), c.out_channels, 3, 2, 1)]

\* lines 167-192
ExtraTransConvs(c) ==
  [k \in 1..c.num_extra_trans_convs |-> Conv(c.out_channels, c.out_channels, 2, 2, 0)]

ExtraFpnConvs(c) ==
  [k \in 1..c.num_extra_trans_convs |-> Conv(c.out_channels, c.out_channels, 3, 1, 1)]

NoSelf ==
  [in_channels |-> <<>>, out_channels |-> 0, num_ins |-> 0, num_outs |-> 0,
   relu_before_extra_convs |-> FALSE, num_extra_trans_convs |-> 0,
   scale_factor |-> 0, backbone_end_level |-> 0, start_level |-> 0,
   end_level |-> -1, add_extra_convs |-> "False", pre_norm |-> FALSE,
   lateral_convs |-> <<>>, fpn_convs |-> <<>>, batch_norm |-> <<>>,
   extra_trans_convs |-> <<>>, extra_fpn_convs |-> <<>>]

\* the object a successful __init__ leaves behind
BuildSelf(c) ==
  [in_channels |-> c.in_channels, out_channels |-> c.out_channels,
   num_ins |-> Len(c.in_channels), num_outs |-> c.num_outs,
   relu_before_extra_convs |-> c.relu_before_extra_convs,
   num_extra_trans_convs |-> c.num_extra_trans_convs,
   scale_factor |-> c.scale_factor,
   backbone_end_level |-> BackboneEndLevel(c), start_level |-> c.start_level,
   end_level |-> c.end_level,
   add_extra_convs |-> NormalizeAddExtraConvs(c.add_extra_convs, c.extra_convs_on_inputs),
   pre_norm |-> c.pre_norm,
   lateral_convs |-> LateralConvs(c), fpn_convs |-> FpnConvs(c),
   batch_norm |-> BatchNorms(c),
   extra_trans_convs |-> ExtraTransConvs(c), extra_fpn_convs |-> ExtraFpnConvs(c)]

\* which assertion of __init__ fails first, "" when none does
InitError(c) ==
  IF ~LevelsOK(c) THEN "AssertLevels"
  ELSE IF ~ModeOK(c.add_extra_convs) THEN "AssertMode"
  ELSE IF ~(ExtraLevels(c) >= c.num_extra_trans_convs) THEN "AssertExtraLevels"
  ELSE ""

\* extra_convs_on_inputs is only read when add_extra_convs is True
OnInputsArgs(m) == IF m = "True" THEN BOOLEAN ELSE {TRUE}

\* the in_channels lists tried: backbone stages that do not narrow with depth
InChannelLists ==
  UNION { { ic \in [1..n -> Channels] : \A k \in 1..(n - 1) : ic[k] <= ic[k + 1] } :
            n \in 1..MaxIns }

Init ==
  /\ pc = "new"
  /\ cfg = NoCfg
  /\ self = NoSelf
  /\ err = ""
  /\ inputs = <<>>
  /\ laterals = <<>>
  /\ i = 0
  /\ extra_laterals = <<>>
  /\ outs = <<>>
  /\ extra_outs = <<>>
  /\ extra_outs_bound = FALSE
  /\ result = <<>>

Construct ==
  /\ pc = "new"
  /\ \E ic \in InChannelLists, oc \in OutChannelSet, no \in 1..MaxOuts,
        sl \in 0..MaxStart, el \in EndLevels, m \in AddExtraConvsArgs,
        rl \in BOOLEAN, nt \in 0..MaxTrans, pn \in BOOLEAN, sf \in ScaleFactors :
     \E oi \in OnInputsArgs(m) :
     LET c == [in_channels |-> ic, out_channels |-> oc, num_outs |-> no,
               start_level |-> sl, end_level |-> el, add_extra_convs |-> m,
               extra_convs_on_inputs |-> oi, relu_before_extra_convs |-> rl,
               num_extra_trans_convs |-> nt, pre_norm |-> pn, scale_factor |-> sf]
     IN
       /\ cfg' = c
       /\ err' = InitError(c)
       /\ IF InitError(c) = ""
            THEN pc' = "ready" /\ self' = BuildSelf(c)
            ELSE pc' = "rejected" /\ self' = self
  /\ UNCHANGED <<inputs, laterals, i, extra_laterals, outs, extra_outs,
                 extra_outs_bound, result>>

(* ---------------------------- forward ---------------------------------- *)
NonIncreasing(sz) == \A k \in 1..(Len(sz) - 1) : sz[k] >= sz[k + 1]

\* a backbone feature map of level k (0-based) with the configured channels
BackboneMap(k, size) ==
  FeatureMap(At(self.in_channels, k), size, "input", k, {k}, "backbone", k)

Raise(e) ==
  /\ pc' = "raised"
  /\ err' = e

\* line 204
ForwardCall ==
  /\ pc = "ready"
  /\ \E n \in {self.num_ins - 1, self.num_ins} \ {0} :
     \E sz \in [1..n -> Sizes] :
       /\ NonIncreasing(sz)
       /\ inputs' = [k \in 1..n |-> BackboneMap(k - 1, sz[k])]
       /\ IF n = Len(self.in_channels)
            THEN pc' = "prenorm" /\ err' = err
            ELSE Raise("AssertionError")
  /\ UNCHANGED <<cfg, self, laterals, i, extra_laterals, outs, extra_outs,
                 extra_outs_bound, result>>

\* LayerNorm2D(c) applied to x: shape is preserved
LayerNorm2D(c, x) ==
  [x EXCEPT !.kind = "normed", !.srckind = x.kind, !.srclevel = x.level]

\* line 205: norm number k is applied to inputs[k], the list is replaced
PreNormInputs(norms, xs) ==
  [k \in 1..Len(norms) |-> LayerNorm2D(norms[k], xs[k])]

PreNorm ==
  /\ pc = "prenorm"
  /\ IF ~self.pre_norm
       THEN pc' = "laterals" /\ UNCHANGED <<inputs, err>>
       ELSE IF \E k \in 1..Len(self.batch_norm) : ~InRange(inputs, k - 1)
         THEN Raise("IndexError") /\ UNCHANGED inputs
         ELSE \/ /\ pc' = "laterals"
                 /\ inputs' = PreNormInputs(self.batch_norm, inputs)
                 /\ UNCHANGED err
              \/ /\ \E k \in 1..Len(self.batch_norm) : inputs[k].ch # self.batch_norm[k]
                 /\ Raise("NormShapeError")
                 /\ UNCHANGED inputs
  /\ UNCHANGED <<cfg, self, laterals, i, extra_laterals, outs, extra_outs,
                 extra_outs_bound, result>>

\* lines 207-210: lateral k reads inputs[k + start_level]
LateralInputIndex(k, start) == k + start

BuildLaterals ==
  /\ pc = "laterals"
  /\ LET used == Len(self.lateral_convs)
         idx(k) == LateralInputIndex(k, self.start_level)
         bad == { k \in 0..(used - 1) :
                    \/ ~InRange(inputs, idx(k))
                    \/ ~ChannelsOK(At(self.lateral_convs, k), At(inputs, idx(k))) }
         first == CHOOSE k \in bad : \A j \in bad : k <= j
     IN IF bad # {}
          THEN /\ Raise(IF ~InRange(inputs, idx(first)) THEN "IndexError" ELSE "ChannelError")
               /\ UNCHANGED <<laterals, i>>
          ELSE /\ laterals' = [k \in 1..used |->
                                 ApplyConv(self.lateral_convs[k], At(inputs, idx(k - 1)),
                                           "lateral", At(inputs, idx(k - 1)).level)]
               /\ i' = used - 1
               /\ pc' = "topdown"
               /\ UNCHANGED err
  /\ UNCHANGED <<cfg, self, inputs, extra_laterals, outs, extra_outs,
                 extra_outs_bound, result>>

\* F.interpolate: the size produced for laterals[k] when added into laterals[k-1]
InterpolateSize(lats, k, sf) ==
  IF sf # 0 THEN At(lats, k).size * sf ELSE At(lats, k - 1).size

\* faulty variant: the finer lateral is added into the coarser one
TopDownStep_BottomUp(lats, k) ==
  [lats EXCEPT ![k + 1] = [@ EXCEPT !.contrib = @ \cup At(lats, k - 1).contrib,
                                    !.srckind = "merged",
                                    !.srclevel = At(lats, k - 1).level]]

\* lines 217-223: laterals[k - 1] += interpolate(laterals[k])
TopDownStep(lats, k) ==
  [lats EXCEPT ![k] = [@ EXCEPT !.contrib = @ \cup At(lats, k).contrib,
                                !.srckind = "merged",
                                !.srclevel = At(lats, k).level]]

TopDown ==
  /\ pc = "topdown"
  /\ IF i >= 1
       THEN IF InterpolateSize(laterals, i, self.scale_factor) # At(laterals, i - 1).size
              THEN Raise("RuntimeError") /\ UNCHANGED <<laterals, i>>
              ELSE /\ laterals' = TopDownStep(laterals, i)
                   /\ i' = i - 1
                   /\ UNCHANGED <<pc, err>>
       ELSE pc' = "trans" /\ UNCHANGED <<laterals, i, err>>
  /\ UNCHANGED <<cfg, self, inputs, extra_laterals, outs, extra_outs,
                 extra_outs_bound, result>>

\* lines 229-232: each transposed conv reads the previous one's output and
\* its output is inserted at the front
RECURSIVE TransLoop(_, _, _, _)
TransLoop(convs, acc, prev, j) ==
  IF j > Len(convs) THEN acc
  ELSE LET e == ApplyTransConv(convs[j], prev, "trans", j)
       IN  TransLoop(convs, <<e>> \o acc, e, j + 1)

TransConvs ==
  /\ pc = "trans"
  /\ IF self.num_extra_trans_convs > 0
       THEN IF laterals = <<>>
              THEN Raise("IndexError") /\ UNCHANGED extra_laterals
              ELSE IF \E k \in 1..Len(self.extra_trans_convs) :
                        self.extra_trans_convs[k].cin # laterals[1].ch
                THEN Raise("ChannelError") /\ UNCHANGED extra_laterals
                ELSE /\ extra_laterals' = TransLoop(self.extra_trans_convs, <<>>, laterals[1], 1)
                     /\ pc' = "part1"
                     /\ UNCHANGED err
       ELSE pc' = "part1" /\ UNCHANGED <<extra_laterals, err>>
  /\ UNCHANGED <<cfg, self, inputs, laterals, i, outs, extra_outs,
                 extra_outs_bound, result>>

\* lines 235-237
Part1 ==
  /\ pc = "part1"
  /\ LET used == Len(laterals)
     IN IF \E k \in 1..used : ~ChannelsOK(self.fpn_convs[k], laterals[k])
          THEN Raise("ChannelError") /\ UNCHANGED outs
          ELSE /\ outs' = [k \in 1..used |->
                             ApplyConv(self.fpn_convs[k], laterals[k], "out", laterals[k].level)]
               /\ pc' = "part2"
               /\ UNCHANGED err
  /\ UNCHANGED <<cfg, self, inputs, laterals, i, extra_laterals, extra_outs,
                 extra_outs_bound, result>>

\* line 245: F.max_pool2d(outs[-1], 1, stride=2)
MaxPool(x, j) ==
  [x EXCEPT !.size = MaxPoolOutSize(x.size), !.kind = "pool", !.level = j,
            !.srckind = x.kind, !.srclevel = x.level]

RECURSIVE PoolLoop(_, _, _)
PoolLoop(os, j, n) ==
  IF j > n THEN os ELSE PoolLoop(Append(os, MaxPool(Last(os), j)), j + 1, n)

\* lines 248-253: the feature map the first extra conv reads; the empty
\* sequence stands for an index that does not exist
ExtraSource(mode, ins, lats, os, bel) ==
  IF mode = "on_input"
    THEN (IF InRange(ins, bel - 1) THEN <<At(ins, bel - 1)>> ELSE <<>>)
  ELSE IF mode = "on_lateral"
    THEN (IF lats # <<>> THEN <<Last(lats)>> ELSE <<>>)
  ELSE (IF os # <<>> THEN <<Last(os)>> ELSE <<>>)

\* faulty variant: the flag is ignored
ExtraConvInput_NoRelu(x, relu) == x

\* lines 260-263: what an extra conv after the first one reads
ExtraConvInput(x, relu) == IF relu THEN Relu(x) ELSE x

\* lines 258-263: extra conv number k reads the previous output
RECURSIVE ExtraLoop(_, _, _, _, _)
ExtraLoop(convs, os, k, hi, relu) ==
  IF k >= hi THEN [err |-> "", outs |-> os]
  ELSE IF ~InRange(convs, k) THEN [err |-> "IndexError", outs |-> os]
  ELSE IF ~ChannelsOK(At(convs, k), Last(os)) THEN [err |-> "ChannelError", outs |-> os]
  ELSE ExtraLoop(convs,
                 Append(os, ApplyConv(At(convs, k), ExtraConvInput(Last(os), relu),
                                      "extra", Last(os).level + 1)),
                 k + 1, hi, relu)

\* lines 240-263
Part2 ==
  /\ pc = "part2"
  /\ LET used == Len(laterals)
         nel == Len(extra_laterals)
         mode == self.add_extra_convs
         src == ExtraSource(mode, inputs, laterals, outs, self.backbone_end_level)
     IN IF ~(self.num_outs > Len(outs) + nel)
          THEN pc' = "part3" /\ UNCHANGED <<outs, err>>
        ELSE IF ~Truthy(mode)
          THEN IF outs = <<>>
                 THEN Raise("IndexError") /\ UNCHANGED outs
                 ELSE /\ outs' = PoolLoop(outs, 1, self.num_outs - nel - used)
                      /\ pc' = "part3"
                      /\ UNCHANGED err
        ELSE IF mode \notin {"on_input", "on_lateral", "on_output"}
          THEN Raise("NotImplementedError") /\ UNCHANGED outs
        ELSE IF src = <<>> \/ ~InRange(self.fpn_convs, used)
          THEN Raise("IndexError") /\ UNCHANGED outs
        ELSE IF ~ChannelsOK(At(self.fpn_convs, used), src[1])
          THEN Raise("ChannelError") /\ UNCHANGED outs
        ELSE LET first == ApplyConv(At(self.fpn_convs, used), src[1], "extra", 1)
                 r == ExtraLoop(self.fpn_convs, Append(outs, first), used + 1,
                                self.num_outs - nel, self.relu_before_extra_convs)
             IN IF r.err # ""
                  THEN Raise(r.err) /\ UNCHANGED outs
                  ELSE outs' = r.outs /\ pc' = "part3" /\ UNCHANGED err
  /\ UNCHANGED <<cfg, self, inputs, laterals, i, extra_laterals, extra_outs,
                 extra_outs_bound, result>>

\* lines 266-273: extra_outs is assigned only inside the if
Part3 ==
  /\ pc = "part3"
  /\ IF self.num_extra_trans_convs > 0
       THEN IF \E k \in 1..self.num_extra_trans_convs :
                   \/ ~InRange(extra_laterals, k - 1)
                   \/ ~ChannelsOK(self.extra_fpn_convs[k], extra_laterals[k])
              THEN Raise("ChannelError") /\ UNCHANGED <<extra_outs, extra_outs_bound>>
              ELSE /\ extra_outs' = [k \in 1..self.num_extra_trans_convs |->
                                       ApplyConv(self.extra_fpn_convs[k], extra_laterals[k],
                                                 "extra_out", extra_laterals[k].level)]
                   /\ extra_outs_bound' = TRUE
                   /\ pc' = "return"
                   /\ UNCHANGED err
       ELSE pc' = "return" /\ UNCHANGED <<extra_outs, extra_outs_bound, err>>
  /\ UNCHANGED <<cfg, self, inputs, laterals, i, extra_laterals, outs, result>>

\* faulty variant: the transposed-conv outputs are appended instead of prepended
ForwardResult_Appended(eos, os) == os \o eos

\* line 276
ForwardResult(eos, os) == eos \o os

\* lines 275-276
Return ==
  /\ pc = "return"
  /\ IF ~extra_outs_bound
       THEN Raise("UnboundLocalError") /\ UNCHANGED result
       ELSE IF Len(extra_outs) + Len(outs) # self.num_outs
         THEN Raise("AssertionError") /\ UNCHANGED result
         ELSE /\ result' = ForwardResult(extra_outs, outs)
              /\ pc' = "done"
              /\ UNCHANGED err
  /\ UNCHANGED <<cfg, self, inputs, laterals, i, extra_laterals, outs, extra_outs,
                 extra_outs_bound>>

Next ==
  \/ Construct
  \/ ForwardCall
  \/ PreNorm
  \/ BuildLaterals
  \/ TopDown
  \/ TransConvs
  \/ Part1
  \/ Part2
  \/ Part3
  \/ Return

Spec == Init /\ [][Next]_vars
(* ---------------------------- properties ------------------------------- *)
Modes == {"on_input", "on_lateral", "on_output"}

Used == Len(laterals)

\* outs has been extended by extra strided convs
ExtraConvsProduced == Len(outs) > Used /\ outs[Used + 1].kind = "extra"

RECURSIVE Pow2(_)
Pow2(k) == IF k = 0 THEN 1 ELSE 2 * Pow2(k - 1)

CeilHalf(n) == (n + 1) \div 2

\* C1: with the default pre_norm and upsample_cfg, a start_level inside the
\* inputs and exactly len(in_channels) input feature maps, forward of an
\* accepted configuration never raises, and what it returns has num_outs
\* feature maps.
C1_ForwardReturnsNumOuts ==
  ( /\ pc \notin {"new", "rejected", "ready"}
    /\ ~self.pre_norm
    /\ self.scale_factor = 0
    /\ self.start_level < self.num_ins
    /\ Len(inputs) = self.num_ins )
  => /\ pc # "raised"
     /\ (pc = "done" => Len(result) = self.num_outs)

\* C2: no convolution of forward is ever handed a feature map whose channel
\* count differs from the one it was built for, and every feature map that
\* forward produces for its result has out_channels channels.
C2_ChannelsConsistent ==
  /\ err # "ChannelError"
  /\ \A k \in 1..Len(outs) : outs[k].ch = self.out_channels
  /\ \A k \in 1..Len(extra_outs) : extra_outs[k].ch = self.out_channels
  /\ \A k \in 1..Len(result) : result[k].ch = self.out_channels

C2_Witness ==
  /\ pc = "done"
  /\ self.add_extra_convs = "on_input"
  /\ ExtraConvsProduced
  /\ outs[Used + 1].srclevel = self.backbone_end_level - 1
  /\ At(self.in_channels, self.backbone_end_level - 1) # self.out_channels
  /\ \E k \in 1..Len(result) : result[k].kind = "extra_out"
  /\ \E k \in 1..Len(result) : result[k].kind = "out"

\* the tuple line 276 builds: returned, or about to be assembled
C3_Tuple == IF pc = "done" THEN result ELSE ForwardResult(extra_outs, outs)

\* C3: with size-based upsampling the tuple forward assembles for its result
\* is, in this order, the transposed-conv outputs (the k-th from the end
\* 2^k times the size of the first used backbone level), one output per used
\* backbone level with the size of that input level, and the extra levels,
\* each of size ceil(previous / 2); the sizes never increase along the tuple.
C3_ResultOrder ==
  (pc \in {"return", "done"} /\ self.scale_factor = 0) =>
    LET nt == self.num_extra_trans_convs
        start == self.start_level
        r == C3_Tuple
    IN /\ \A k \in 1..nt :
            /\ r[nt - k + 1].kind = "extra_out"
            /\ r[nt - k + 1].size = Pow2(k) * At(inputs, start).size
       /\ \A j \in 1..Used :
            /\ r[nt + j].kind = "out"
            /\ r[nt + j].level = start + j - 1
            /\ r[nt + j].size = At(inputs, start + j - 1).size
       /\ \A j \in (nt + Used + 1)..Len(r) :
            /\ r[j].kind \in {"pool", "extra"}
            /\ j > 1 => r[j].size = CeilHalf(r[j - 1].size)
       /\ \A j \in 1..(Len(r) - 1) : r[j].size >= r[j + 1].size

C3_Witness ==
  /\ pc = "done"
  /\ self.scale_factor = 0
  /\ self.num_extra_trans_convs = 2
  /\ Used >= 1
  /\ Len(result) > self.num_extra_trans_convs + Used
  /\ result[1].size = 4
  /\ result[2].size = 2
  /\ result[self.num_extra_trans_convs + Used].size = 1
  /\ result[Len(result)].size = 1

\* the level configurations C4 says __init__ accepts
C4_ClaimedLevelsOK(c) ==
  LET n == Len(c.in_channels)
  IN /\ IF c.end_level = -1 \/ c.end_level = n
          THEN c.num_outs >= n - c.start_level
          ELSE c.end_level <= n /\ c.num_outs = c.end_level - c.start_level
     /\ c.num_extra_trans_convs <= c.num_outs - (BackboneEndLevel(c) - c.start_level)

\* C4: __init__ fails a level assertion exactly for the inconsistent level
\* configurations, where an explicit end_level equal to len(in_channels) is
\* consistent under the same condition as end_level = -1.
C4_LevelAssertions ==
  /\ (pc = "rejected" /\ err \in {"AssertLevels", "AssertExtraLevels"})
       => ~C4_ClaimedLevelsOK(cfg)
  /\ pc = "ready" => C4_ClaimedLevelsOK(cfg)

\* the configuration with the boolean True replaced by the mode it stands for
C5_Explicit(c) ==
  [c EXCEPT !.add_extra_convs =
     IF c.extra_convs_on_inputs THEN "on_input" ELSE "on_output"]

\* C5: after a successful construction self.add_extra_convs is False or one
\* of the three modes and forward never raises NotImplementedError; a
\* construction with add_extra_convs=True leaves the object that the
\* construction with the mode named by extra_convs_on_inputs leaves, and its
\* first extra conv reads the source of that mode.
C5_BoolModeEquivalence ==
  pc \notin {"new", "rejected"} =>
    /\ self.add_extra_convs \in Modes \cup {"False"}
    /\ err # "NotImplementedError"
    /\ cfg.add_extra_convs = "True" =>
         /\ self = BuildSelf(C5_Explicit(cfg))
         /\ ExtraConvsProduced =>
              IF cfg.extra_convs_on_inputs
                THEN outs[Used + 1].srckind \in {"input", "normed"}
                ELSE outs[Used + 1].srckind = "out"

C5_Witness ==
  /\ pc = "done"
  /\ cfg.add_extra_convs = "True"
  /\ ~cfg.extra_convs_on_inputs
  /\ ExtraConvsProduced
  /\ outs[Used + 1].srckind = "out"

\* C6: the first extra conv reads the feature map its mode names: the
\* backbone's own feature map of level backbone_end_level - 1 for
\* 'on_input', the last lateral for 'on_lateral', the last fpn output for
\* 'on_output'; every further extra conv reads the previous extra output.
C6_ExtraSource ==
  ExtraConvsProduced =>
    LET first == outs[Used + 1]
    IN /\ first.srclevel = self.backbone_end_level - 1
       /\ self.add_extra_convs = "on_input" => first.srckind = "input"
       /\ self.add_extra_convs = "on_lateral" => first.srckind = "lateral"
       /\ self.add_extra_convs = "on_output" => first.srckind = "out"
       /\ \A k \in (Used + 2)..Len(outs) :
            /\ outs[k].srckind = "extra"
            /\ outs[k].srclevel = outs[k - 1].level

C8_LevelsFrom(lv) == lv..(self.backbone_end_level - 1)

\* C8: while the top-down loop is at index i, the laterals of index >= i are
\* merged (they carry exactly their own level and all coarser used levels)
\* and the finer ones are still their own projection; afterwards every
\* lateral is merged, the coarsest one is untouched, each other one is its
\* projection plus the merged lateral one level up, and the fpn convs and
\* the transposed-conv branch read the merged laterals.
C8_TopDownMerge ==
  /\ pc = "topdown" =>
       \A k \in 1..Used :
         laterals[k].contrib =
           IF k - 1 >= i THEN C8_LevelsFrom(laterals[k].level) ELSE {laterals[k].level}
  /\ pc \in {"trans", "part1", "part2", "part3", "return", "done"} =>
       /\ \A k \in 1..Used :
            /\ laterals[k].level = self.start_level + k - 1
            /\ laterals[k].contrib = C8_LevelsFrom(laterals[k].level)
       /\ Used >= 1 => Last(laterals).srckind # "merged"
       /\ \A k \in 1..(Used - 1) :
            /\ laterals[k].srckind = "merged"
            /\ laterals[k].srclevel = laterals[k].level + 1
            /\ laterals[k].contrib = {laterals[k].level} \cup laterals[k + 1].contrib
       /\ \A k \in 1..Len(outs) :
            outs[k].kind = "out" => outs[k].contrib = laterals[k].contrib
       /\ \A k \in 1..Len(extra_laterals) :
            extra_laterals[k].contrib = laterals[1].contrib

C8_Witness ==
  /\ pc = "done"
  /\ Used = 3
  /\ laterals[1].contrib = {0, 1, 2}
  /\ laterals[2].contrib = {1, 2}
  /\ laterals[3].contrib = {2}
  /\ Len(extra_laterals) >= 1
  /\ result[Len(extra_laterals) + 1].contrib = {0, 1, 2}
====
